---- MODULE Spec2Model ----
(***************************************************************************)
(* A model of the SFF unpacker (src/unpacker/app.py): the directory parser *)
(* parse_sff, the path sanitizer sanitize_filename, the extraction engine  *)
(* extract_all and the part of the SFFApp window that loads archives and   *)
(* runs extractions on background threads.                                 *)
(*                                                                         *)
(* Bytes are the integers 0..255, byte strings are sequences of bytes,     *)
(* text is a sequence of code points.  An unsigned 32-bit integer is the   *)
(* pair <<high 16 bits, low 16 bits>>, so that all of 0..2^32-1 is         *)
(* represented exactly.                                                    *)
(***************************************************************************)
EXTENDS Integers, Sequences, FiniteSets, TLC

VARIABLES
    \* -- parse_sff called on a byte buffer
    data,          \* the bytes read from the file
    parsed,        \* [done, entries, offset]: what parse_sff returned, once done
    \* -- sanitizing one raw entry name
    raw,           \* the raw name (text)
    once,          \* [done, parts, skip]: the name sanitized once
    twice,         \* [done, parts, skip]: the sanitized parts sanitized again
    \* -- one call of extract_all
    src,           \* the bytes of the archive file
    x_entries,     \* the argument entries
    x_offset,      \* the argument data_offset
    pos,           \* the position of the file object f
    idx,           \* the number of entries the loop has finished (i in the code)
    skipped,       \* the local skipped
    calls,         \* the calls of progress_cb so far, each <<done, total>>
    files,         \* the files on disk: location |-> bytes
    dirs,          \* the directories created under or beside output_dir
    xpc,           \* "idle", "run", "returned" or "raised"
    log,           \* per entry the loop has taken up: what was read and done
    \* -- the SFFApp window
    self_current_file,  \* self.current_file ("" is None)
    self_entries,       \* self.entries
    self_data_offset,   \* self.data_offset
    extract_btn,        \* the state of self.extract_btn: "disabled" or "normal"
    progress_var,       \* self.progress_var, in percent
    status_var,         \* self.status_var, as [msg, n]
    mainpc,             \* where the main thread is: "idle", or inside _load_file
    loading,            \* the locals path, entries, data_offset of _load_file
    threads,            \* the threads _extract has started, in order
    afterq,             \* the callbacks given to root.after(0, ...), not yet run
    reported            \* what _extraction_done has reported: [tid, count]

pvars == <<data, parsed>>
svars == <<raw, once, twice>>
xvars == <<src, x_entries, x_offset, pos, idx, skipped, calls, files, dirs, xpc, log>>
gvars == <<self_current_file, self_entries, self_data_offset, extract_btn,
           progress_var, status_var, mainpc, loading, threads, afterq, reported>>
vars == <<pvars, svars, xvars, gvars>>

Min(a, b) == IF a < b THEN a ELSE b

\* ---------------------------------------------------------------- bounds
MaxParseRecords == 2
MaxNameLen == 3
MaxEntries == 3
MaxPayload == 4
MaxThreads == 2

\* ------------------------------------------------------- bytes and text
\* Python's data[a:b] on a byte string (0-based, half open, clipped).
Slice(b, lo, hi) == SubSeq(b, lo + 1, Min(hi, Len(b)))

\* struct.unpack("<I", b)[0]
unpack_u32(b) == <<b[3] + 256 * b[4], b[1] + 256 * b[2]>>

U32_ZERO == <<0, 0>>

\* b.split(b"\x00")[0]
UpToNul(b) ==
    LET nuls == {k \in 1..Len(b) : b[k] = 0}
    IN  IF nuls = {} THEN b
        ELSE SubSeq(b, 1, (CHOOSE k \in nuls : \A j \in nuls : k <= j) - 1)

\* b.decode("ascii", errors="replace"): every byte that is not ASCII becomes
\* one U+FFFD.
decode_ascii(b) == [k \in 1..Len(b) |-> IF b[k] < 128 THEN b[k] ELSE 65533]

\* ------------------------------------------------------------ parse_sff
ENTRY_SIZE == 136
SENTINEL == <<52428, 52428>>     \* 0xCCCCCCCC

\* a parser that stops on size 0 only
IsTerminatorSize_NoSentinel(size) == size = U32_ZERO

IsTerminatorSize(size) == size = U32_ZERO \/ size = SENTINEL

RECURSIVE parse_loop(_, _, _)
parse_loop(d, entries, offset) ==
    IF ~(offset + ENTRY_SIZE <= Len(d)) THEN <<entries, offset>>
    ELSE LET size == unpack_u32(Slice(d, offset, offset + 4))
             name_bytes == Slice(d, offset + 4, offset + 132)
             filename == decode_ascii(UpToNul(name_bytes))
         IN  IF IsTerminatorSize(size) THEN <<entries, offset>>
             ELSE IF filename = <<>> THEN <<entries, offset>>
             ELSE parse_loop(d,
                             Append(entries, [filename |-> filename, size |-> size]),
                             offset + ENTRY_SIZE)

parse_sff(d) == parse_loop(d, <<>>, 0)

\* ---------------------------------------------------- sanitize_filename
Reserved == {92, 47, 58, 42, 63, 34, 60, 62, 124}    \* \ / : * ? " < > |

\* str.isprintable on the code points a decoded name can hold
\* (1..127 and U+FFFD): the ASCII controls and DEL are not printable.
isprintable(c) == (c >= 32 /\ c <= 126) \/ c = 65533

\* the code points str.strip() removes
isspace(c) == c \in (9..13) \cup (28..32)

KeepChar(c) == isprintable(c) /\ c \notin Reserved

RECURSIVE lstrip(_)
lstrip(s) == IF s # <<>> /\ isspace(Head(s)) THEN lstrip(Tail(s)) ELSE s

RECURSIVE rstrip(_)
rstrip(s) ==
    IF s # <<>> /\ isspace(s[Len(s)]) THEN rstrip(SubSeq(s, 1, Len(s) - 1)) ELSE s

strip(s) == rstrip(lstrip(s))

UNNAMED == <<95, 117, 110, 110, 97, 109, 101, 100>>   \* "_unnamed"

\* a sanitizer that strips before it drops characters
sanitize_filename_StripFirst(filename) ==
    LET cleaned == SelectSeq(strip(filename), KeepChar)
    IN  IF cleaned = <<>> THEN UNNAMED ELSE cleaned

sanitize_filename(filename) ==
    LET cleaned == SelectSeq(filename, KeepChar)
    IN  IF strip(cleaned) = <<>> THEN UNNAMED ELSE strip(cleaned)

\* filename.replace("\\", "/").split("/")
RECURSIVE split_path(_, _)
split_path(s, cur) ==
    IF s = <<>> THEN <<cur>>
    ELSE IF Head(s) = 92 \/ Head(s) = 47 THEN <<cur>> \o split_path(Tail(s), <<>>)
    ELSE split_path(Tail(s), Append(cur, Head(s)))

\* parts = [sanitize_filename(p) for p in parts]
sanitized_parts(filename) ==
    LET parts == split_path(filename, <<>>)
    IN  [k \in 1..Len(parts) |-> sanitize_filename(parts[k])]

\* a test that forgets the placeholder
is_unrecoverable_EmptyOnly(parts) ==
    \A k \in 1..Len(parts) : parts[k] = <<>>

\* all(p in ("", "_unnamed") for p in parts)
is_unrecoverable(parts) ==
    \A k \in 1..Len(parts) : parts[k] \in {<<>>, UNNAMED}

\* ---------------------------------------------------------- extract_all
\* The number of bytes f.read(size) returns with `remaining` bytes left:
\* all of them when fewer than size are left.
ReadCount(size, remaining) ==
    IF size[1] > 0 THEN remaining ELSE Min(size[2], remaining)

\* f.read(size) at position p of the bytes b
read(b, p, size) == SubSeq(b, p + 1, p + ReadCount(size, Len(b) - p))

DOT == <<46>>
DOTDOT == <<46, 46>>

NotDot(p) == p # DOT

\* Path(output_dir).joinpath(*parts), as the components below output_dir:
\* pathlib drops the "." components and keeps the ".." ones.
joinpath(parts) == SelectSeq(parts, NotDot)

\* The place a path below output_dir names: the components from output_dir
\* down, with a leading ".." for every step above output_dir.
RECURSIVE Resolve(_, _)
Resolve(loc, segs) ==
    IF segs = <<>> THEN loc
    ELSE IF Head(segs) = DOTDOT
         THEN IF loc = <<>> \/ loc[Len(loc)] = DOTDOT
              THEN Resolve(Append(loc, DOTDOT), Tail(segs))
              ELSE Resolve(SubSeq(loc, 1, Len(loc) - 1), Tail(segs))
         ELSE Resolve(Append(loc, Head(segs)), Tail(segs))

Loc(segs) == Resolve(<<>>, segs)

\* output_dir and the directories above it exist.
IsAncestor(loc) == \A k \in 1..Len(loc) : loc[k] = DOTDOT

is_dir(ds, loc) == loc \in ds \/ IsAncestor(loc)

\* out_path.parent
parent(path) == SubSeq(path, 1, Len(path) - 1)

\* The leading components of dirpath that mkdir(parents=True, exist_ok=True)
\* gets through: all of them, or those before the first that is a file.
MkdirReach(fs, dirpath) ==
    LET blocked == {k \in 1..Len(dirpath) : Loc(SubSeq(dirpath, 1, k)) \in DOMAIN fs}
    IN  IF blocked = {} THEN Len(dirpath)
        ELSE (CHOOSE k \in blocked : \A j \in blocked : k <= j) - 1

mkdir_fails(fs, dirpath) == MkdirReach(fs, dirpath) < Len(dirpath)

\* a mkdir that replaces whatever is in the way of a directory
mkdir_parents_Replacing(ds, fs, dirpath, n) ==
    [d |-> ds \cup {Loc(SubSeq(dirpath, 1, k)) : k \in 1..Len(dirpath)},
     f |-> [loc \in DOMAIN fs \ {Loc(SubSeq(dirpath, 1, k)) : k \in 1..Len(dirpath)}
               |-> fs[loc]]]

\* The disk after mkdir has created the first n components of dirpath that
\* were missing: directories are added, no file is touched.
mkdir_parents(ds, fs, dirpath, n) ==
    [d |-> ds \cup {loc \in {Loc(SubSeq(dirpath, 1, k)) : k \in 1..n} : ~IsAncestor(loc)},
     f |-> fs]

\* open(out_path, "wb") creates the file or truncates it.
open_wb(fs, loc) == [l \in DOMAIN fs \cup {loc} |-> IF l = loc THEN <<>> ELSE fs[l]]

\* out.write(file_data), of which the first n bytes reach the disk
write(fs, loc, bytes, n) ==
    [l \in DOMAIN fs \cup {loc} |-> IF l = loc THEN SubSeq(bytes, 1, n) ELSE fs[l]]

\* a loop that does not report
progress_cb_Forgotten(c, done, total) == c

\* progress_cb(i + 1, total)
progress_cb(c, done, total) == Append(c, <<done, total>>)

\* ------------------------------------------------- inputs: byte buffers
Zeros(n) == [k \in 1..n |-> 0]

Fill(n, c) == [k \in 1..n |-> c]

\* One 136-byte record: 4 size bytes, the name null-padded to 128 bytes, and
\* the 4 bytes the parser never looks at.
Record(size4, name, rest4) == size4 \o name \o Zeros(128 - Len(name)) \o rest4

ParseRecords ==
    { Record(<<1, 0, 0, 0>>, <<97>>, <<0, 0, 0, 0>>),               \* 1, "a"
      Record(<<2, 1, 0, 0>>, <<200, 47, 98>>, <<9, 9, 9, 9>>),      \* 258, not ASCII
      Record(<<0, 1, 0, 0>>, <<97, 0, 98>>, <<0, 0, 0, 0>>),        \* 256, "a\0b"
      Record(<<3, 0, 0, 0>>, Fill(128, 120), <<121, 121, 121, 121>>), \* no null in the field
      Record(<<0, 0, 0, 0>>, <<97>>, <<0, 0, 0, 0>>),               \* size 0
      Record(<<204, 204, 204, 204>>, <<97>>, <<0, 0, 0, 0>>),       \* size 0xCCCCCCCC
      Record(<<1, 0, 0, 0>>, <<0, 98>>, <<0, 0, 0, 0>>) }           \* empty name

ParseTails ==
    { <<>>, <<1>>,
      SubSeq(Record(<<1, 0, 0, 0>>, <<97>>, <<0, 0, 0, 0>>), 1, 135) }

RECURSIVE Tables(_, _)
Tables(recs, n) ==
    IF n = 0 THEN {<<>>}
    ELSE LET shorter == Tables(recs, n - 1)
         IN  shorter \cup {t \o r : t \in shorter, r \in recs}

ParseBuffers == {t \o tail : t \in Tables(ParseRecords, MaxParseRecords), tail \in ParseTails}

\* Archives to extract: a table of records and the payload after it.
ExtractRecords ==
    { Record(<<1, 0, 0, 0>>, <<97>>, <<0, 0, 0, 0>>),              \* 1, "a"
      Record(<<2, 0, 0, 0>>, <<97, 47, 98>>, <<0, 0, 0, 0>>),      \* 2, "a/b"
      Record(<<1, 0, 0, 0>>, <<46, 46, 92, 97>>, <<0, 0, 0, 0>>),  \* 1, "..\a"
      Record(<<2, 0, 0, 0>>, <<32, 1>>, <<0, 0, 0, 0>>),           \* 2, " \x01"
      Record(<<2, 0, 0, 0>>, <<47, 58, 97, 32>>, <<0, 0, 0, 0>>),  \* 2, "/:a "
      Record(<<1, 0, 0, 0>>, <<46, 47, 200>>, <<0, 0, 0, 0>>) }    \* 1, "./\xc8"

Payload(n) == [k \in 1..n |-> 64 + k]

Archives ==
    {t \o Payload(n) : t \in Tables(ExtractRecords, MaxEntries), n \in 0..MaxPayload}

\* ---------------------------------------------------- inputs: raw names
Alphabet == {1, 9, 32, 46, 47, 58, 92, 97, 65533}

RECURSIVE Texts(_)
Texts(n) ==
    IF n = 0 THEN {<<>>}
    ELSE LET shorter == Texts(n - 1)
         IN  shorter \cup {Append(t, c) : t \in shorter, c \in Alphabet}

RawNames ==
    Texts(MaxNameLen)
        \cup {UNNAMED, <<32>> \o UNNAMED \o <<1>>, UNNAMED \o <<47, 97>>,
              <<97, 47>> \o UNNAMED}

\* ------------------------------------------------------------ the states
NotParsed == [done |-> FALSE, entries |-> <<>>, offset |-> 0]
NotSanitized == [done |-> FALSE, parts |-> <<>>, skip |-> FALSE]

NoFiles == [loc \in {} |-> <<>>]

NotLoading == [path |-> "", entries |-> <<>>, data_offset |-> 0]

ParseIdle == data = <<>> /\ parsed = NotParsed
GuiIdle ==
    /\ self_current_file = "" /\ self_entries = <<>> /\ self_data_offset = 0
    /\ extract_btn = "disabled" /\ progress_var = 0
    /\ status_var = [msg |-> "Ready", n |-> 0]
    /\ mainpc = "idle" /\ loading = NotLoading
    /\ threads = <<>> /\ afterq = <<>> /\ reported = <<>>
ExtractIdle ==
    /\ src = <<>> /\ x_entries = <<>> /\ x_offset = 0 /\ pos = 0 /\ idx = 0
    /\ skipped = 0 /\ calls = <<>> /\ files = NoFiles /\ dirs = {}
    /\ xpc = "idle" /\ log = <<>>
SanIdle == raw = <<>> /\ once = NotSanitized /\ twice = NotSanitized

\* ------------------------------------------- specification: parse_sff
InitParse ==
    /\ data \in ParseBuffers
    /\ parsed = NotParsed
    /\ SanIdle /\ ExtractIdle /\ GuiIdle

ParseFile ==
    /\ ~parsed.done
    /\ LET r == parse_sff(data)
       IN  parsed' = [done |-> TRUE, entries |-> r[1], offset |-> r[2]]
    /\ UNCHANGED <<data, svars, xvars, gvars>>

NextParse == ParseFile

SpecParse == InitParse /\ [][NextParse]_vars

\* ----------------------------------- specification: sanitizing a name
InitSan ==
    /\ raw \in RawNames
    /\ once = NotSanitized
    /\ twice = NotSanitized
    /\ ParseIdle /\ ExtractIdle /\ GuiIdle

Sanitize ==
    /\ ~once.done
    /\ LET parts == sanitized_parts(raw)
       IN  once' = [done |-> TRUE, parts |-> parts, skip |-> is_unrecoverable(parts)]
    /\ UNCHANGED <<raw, twice, pvars, xvars, gvars>>

SanitizeAgain ==
    /\ once.done /\ ~twice.done
    /\ LET parts == [k \in 1..Len(once.parts) |-> sanitize_filename(once.parts[k])]
       IN  twice' = [done |-> TRUE, parts |-> parts, skip |-> is_unrecoverable(parts)]
    /\ UNCHANGED <<raw, once, pvars, xvars, gvars>>

NextSan == Sanitize \/ SanitizeAgain

SpecSan == InitSan /\ [][NextSan]_vars

\* ----------------------------------------- specification: extract_all
\* extract_all(filepath, entries, data_offset, output_dir, progress_cb) on
\* an archive as parse_sff returned it, into an empty output_dir: the file
\* is open and f.seek(data_offset) is done.
InitExtract ==
    /\ src \in Archives
    /\ x_entries = parse_sff(src)[1]
    /\ x_offset = parse_sff(src)[2]
    /\ pos = x_offset
    /\ idx = 0
    /\ skipped = 0
    /\ calls = <<>>
    /\ files = NoFiles
    /\ dirs = {}
    /\ xpc = "run"
    /\ log = <<>>
    /\ ParseIdle /\ SanIdle /\ GuiIdle

total == Len(x_entries)
entry == x_entries[idx + 1]
file_data == read(src, pos, entry.size)
parts == sanitized_parts(entry.filename)
out_path == joinpath(parts)

InLoop == xpc = "run" /\ idx < total

Logged(outcome) ==
    Append(log, [start |-> pos, bytes |-> file_data, outcome |-> outcome,
                 path |-> out_path])

\* lines 82-93: read, sanitize, skip
ExtractSkip ==
    /\ InLoop
    /\ is_unrecoverable(parts)
    /\ pos' = pos + Len(file_data)
    /\ skipped' = skipped + 1
    /\ calls' = progress_cb(calls, idx + 1, total)
    /\ idx' = idx + 1
    /\ log' = Logged("skipped")
    /\ UNCHANGED <<src, x_entries, x_offset, files, dirs, xpc, pvars, svars, gvars>>

\* lines 82-101: read, sanitize, mkdir, open, write, report
ExtractWrite ==
    /\ InLoop
    /\ ~is_unrecoverable(parts)
    /\ ~mkdir_fails(files, parent(out_path))
    /\ LET disk == mkdir_parents(dirs, files, parent(out_path), Len(parent(out_path)))
       IN  /\ ~is_dir(disk.d, Loc(out_path))
           /\ dirs' = disk.d
           /\ files' = write(open_wb(disk.f, Loc(out_path)), Loc(out_path),
                             file_data, Len(file_data))
    /\ pos' = pos + Len(file_data)
    /\ calls' = progress_cb(calls, idx + 1, total)
    /\ idx' = idx + 1
    /\ log' = Logged("written")
    /\ UNCHANGED <<src, x_entries, x_offset, skipped, xpc, pvars, svars, gvars>>

Raise(outcome) ==
    /\ pos' = pos + Len(file_data)
    /\ xpc' = "raised"
    /\ log' = Logged(outcome)
    /\ UNCHANGED <<src, x_entries, x_offset, idx, skipped, calls, pvars, svars, gvars>>

\* line 96 raises: a component of the parent is a file, or the system
\* refuses to create the (n+1)-th component, which is missing.
ExtractMkdirFails ==
    /\ InLoop
    /\ ~is_unrecoverable(parts)
    /\ \E n \in 0..MkdirReach(files, parent(out_path)) :
           /\ n < Len(parent(out_path))
           /\ ~is_dir(dirs, Loc(SubSeq(parent(out_path), 1, n + 1)))
           /\ LET disk == mkdir_parents(dirs, files, parent(out_path), n)
              IN  dirs' = disk.d /\ files' = disk.f
    /\ Raise("mkdir failed")

\* line 97 raises: out_path is a directory, or the system refuses the open.
ExtractOpenFails ==
    /\ InLoop
    /\ ~is_unrecoverable(parts)
    /\ ~mkdir_fails(files, parent(out_path))
    /\ LET disk == mkdir_parents(dirs, files, parent(out_path), Len(parent(out_path)))
       IN  dirs' = disk.d /\ files' = disk.f
    /\ Raise("open failed")

\* line 98 (or the close of out) raises after the open has created or
\* truncated the file: n bytes of file_data have reached it.
ExtractWriteFails ==
    /\ InLoop
    /\ ~is_unrecoverable(parts)
    /\ ~mkdir_fails(files, parent(out_path))
    /\ LET disk == mkdir_parents(dirs, files, parent(out_path), Len(parent(out_path)))
       IN  /\ ~is_dir(disk.d, Loc(out_path))
           /\ dirs' = disk.d
           /\ \E n \in 0..Len(file_data) :
                  files' = write(open_wb(disk.f, Loc(out_path)), Loc(out_path),
                                 file_data, n)
    /\ Raise("write failed")

\* line 103
ExtractReturn ==
    /\ xpc = "run"
    /\ idx = total
    /\ xpc' = "returned"
    /\ UNCHANGED <<src, x_entries, x_offset, pos, idx, skipped, calls, files, dirs,
                   log, pvars, svars, gvars>>

NextExtract ==
    \/ ExtractSkip
    \/ ExtractWrite
    \/ ExtractMkdirFails
    \/ ExtractOpenFails
    \/ ExtractWriteFails
    \/ ExtractReturn

SpecExtract == InitExtract /\ [][NextExtract]_vars

\* ------------------------------------------------ specification: SFFApp
\* The files the user can pick or drop: two archives and a file that cannot
\* be read.
Paths == {"one.sff", "two.sff", "locked.sff"}

Readable == {"one.sff", "two.sff"}

Contents(path) ==
    IF path = "one.sff"
    THEN Record(<<1, 0, 0, 0>>, <<97>>, <<0, 0, 0, 0>>) \o Payload(1)
    ELSE Record(<<1, 0, 0, 0>>, <<97>>, <<0, 0, 0, 0>>)
             \o Record(<<2, 0, 0, 0>>, <<97, 47, 98>>, <<0, 0, 0, 0>>) \o Payload(3)

\* SFFApp.__init__
InitGui == GuiIdle /\ ParseIdle /\ SanIdle /\ ExtractIdle

\* _extraction_done and _extraction_error, as the main loop runs them
RECURSIVE RunCallbacks(_, _)
RunCallbacks(q, st) ==
    IF q = <<>> THEN st
    ELSE LET cb == Head(q)
             next == IF cb.kind = "done"
                     THEN [st EXCEPT !.btn = "normal",
                                     !.progress = 100,
                                     !.status = [msg |-> "Extracted", n |-> Len(self_entries)],
                                     !.reported = Append(@, [tid |-> cb.tid,
                                                             count |-> Len(self_entries)])]
                     ELSE [st EXCEPT !.btn = "normal",
                                     !.status = [msg |-> "Error", n |-> 0]]
         IN  RunCallbacks(Tail(q), next)

GuiState ==
    [btn |-> extract_btn, progress |-> progress_var, status |-> status_var,
     reported |-> reported]

\* The main loop runs the oldest pending callback.
MainRunsCallback ==
    /\ mainpc = "idle"
    /\ afterq # <<>>
    /\ LET st == RunCallbacks(<<Head(afterq)>>, GuiState)
       IN  /\ extract_btn' = st.btn
           /\ progress_var' = st.progress
           /\ status_var' = st.status
           /\ reported' = st.reported
    /\ afterq' = Tail(afterq)
    /\ UNCHANGED <<self_current_file, self_entries, self_data_offset, mainpc,
                   loading, threads, pvars, svars, xvars>>

\* _load_file(path), lines 331-334: root.update() runs the pending callbacks,
\* then parse_sff returns.
LoadParses ==
    /\ mainpc = "idle"
    /\ \E path \in Readable :
           LET st == RunCallbacks(afterq, GuiState)
               r == parse_sff(Contents(path))
           IN  /\ extract_btn' = st.btn
               /\ progress_var' = st.progress
               /\ reported' = st.reported
               /\ status_var' = [msg |-> "Parsing", n |-> 0]
               /\ loading' = [path |-> path, entries |-> r[1], data_offset |-> r[2]]
    /\ afterq' = <<>>
    /\ mainpc' = "set current_file"
    /\ UNCHANGED <<self_current_file, self_entries, self_data_offset, threads,
                   pvars, svars, xvars>>

\* _load_file(path), lines 331-334 and 350-351: parse_sff raises.
LoadRaises ==
    /\ mainpc = "idle"
    /\ \E path \in Paths \ Readable :
           LET st == RunCallbacks(afterq, GuiState)
           IN  /\ extract_btn' = st.btn
               /\ progress_var' = st.progress
               /\ reported' = st.reported
               /\ status_var' = [msg |-> "Error", n |-> 0]
    /\ afterq' = <<>>
    /\ UNCHANGED <<self_current_file, self_entries, self_data_offset, mainpc,
                   loading, threads, pvars, svars, xvars>>

\* line 335
LoadSetsCurrentFile ==
    /\ mainpc = "set current_file"
    /\ self_current_file' = loading.path
    /\ mainpc' = "set entries"
    /\ UNCHANGED <<self_entries, self_data_offset, extract_btn, progress_var,
                   status_var, loading, threads, afterq, reported, pvars, svars, xvars>>

\* line 336
LoadSetsEntries ==
    /\ mainpc = "set entries"
    /\ self_entries' = loading.entries
    /\ mainpc' = "set data_offset"
    /\ UNCHANGED <<self_current_file, self_data_offset, extract_btn, progress_var,
                   status_var, loading, threads, afterq, reported, pvars, svars, xvars>>

\* line 337
LoadSetsDataOffset ==
    /\ mainpc = "set data_offset"
    /\ self_data_offset' = loading.data_offset
    /\ mainpc' = "show"
    /\ UNCHANGED <<self_current_file, self_entries, extract_btn, progress_var,
                   status_var, loading, threads, afterq, reported, pvars, svars, xvars>>

\* lines 339-348
LoadShows ==
    /\ mainpc = "show"
    /\ extract_btn' = "normal"
    /\ status_var' = [msg |-> "Loaded", n |-> Len(loading.entries)]
    /\ loading' = NotLoading
    /\ mainpc' = "idle"
    /\ UNCHANGED <<self_current_file, self_entries, self_data_offset, progress_var,
                   threads, afterq, reported, pvars, svars, xvars>>

NewThread == [pc |-> "read current_file", file |-> "", entries |-> <<>>,
              data_offset |-> 0, done |-> 0]

\* A click on EXTRACT ALL, which Tk delivers while the button is not
\* disabled: _extract with an output folder chosen.
ClickExtract ==
    /\ mainpc = "idle"
    /\ extract_btn = "normal"
    /\ self_current_file # ""
    /\ Len(threads) < MaxThreads
    /\ extract_btn' = "disabled"
    /\ progress_var' = 0
    /\ status_var' = [msg |-> "Extracting", n |-> 0]
    /\ threads' = Append(threads, NewThread)
    /\ UNCHANGED <<self_current_file, self_entries, self_data_offset, mainpc,
                   loading, afterq, reported, pvars, svars, xvars>>

ThreadKeeps ==
    UNCHANGED <<self_current_file, self_entries, self_data_offset, extract_btn,
                mainpc, loading, reported, pvars, svars, xvars>>

\* run(), lines 390-393: the arguments of extract_all are read one by one.
ThreadReadsCurrentFile ==
    \E t \in 1..Len(threads) :
        /\ threads[t].pc = "read current_file"
        /\ threads' = [threads EXCEPT ![t].file = self_current_file,
                                      ![t].pc = "read entries"]
        /\ UNCHANGED <<progress_var, status_var, afterq>>
        /\ ThreadKeeps

ThreadReadsEntries ==
    \E t \in 1..Len(threads) :
        /\ threads[t].pc = "read entries"
        /\ threads' = [threads EXCEPT ![t].entries = self_entries,
                                      ![t].pc = "read data_offset"]
        /\ UNCHANGED <<progress_var, status_var, afterq>>
        /\ ThreadKeeps

ThreadReadsDataOffset ==
    \E t \in 1..Len(threads) :
        /\ threads[t].pc = "read data_offset"
        /\ threads' = [threads EXCEPT ![t].data_offset = self_data_offset,
                                      ![t].pc = "extract_all"]
        /\ UNCHANGED <<progress_var, status_var, afterq>>
        /\ ThreadKeeps

\* extract_all finishes one more entry and calls on_progress (lines 383-387).
ThreadProgress ==
    \E t \in 1..Len(threads) :
        /\ threads[t].pc = "extract_all"
        /\ threads[t].done < Len(threads[t].entries)
        /\ threads' = [threads EXCEPT ![t].done = @ + 1]
        /\ progress_var' = ((threads[t].done + 1) * 100) \div Len(threads[t].entries)
        /\ status_var' = [msg |-> "Extracting", n |-> threads[t].done + 1]
        /\ UNCHANGED afterq
        /\ ThreadKeeps

\* extract_all returns: line 397
ThreadReturns ==
    \E t \in 1..Len(threads) :
        /\ threads[t].pc = "extract_all"
        /\ threads[t].done = Len(threads[t].entries)
        /\ threads' = [threads EXCEPT ![t].pc = "finished"]
        /\ afterq' = Append(afterq, [kind |-> "done", tid |-> t])
        /\ UNCHANGED <<progress_var, status_var>>
        /\ ThreadKeeps

\* extract_all raises at the next entry: lines 398-399
ThreadRaises ==
    \E t \in 1..Len(threads) :
        /\ threads[t].pc = "extract_all"
        /\ threads[t].done < Len(threads[t].entries)
        /\ threads' = [threads EXCEPT ![t].pc = "finished"]
        /\ afterq' = Append(afterq, [kind |-> "error", tid |-> t])
        /\ UNCHANGED <<progress_var, status_var>>
        /\ ThreadKeeps

NextGui ==
    \/ MainRunsCallback
    \/ LoadParses
    \/ LoadRaises
    \/ LoadSetsCurrentFile
    \/ LoadSetsEntries
    \/ LoadSetsDataOffset
    \/ LoadShows
    \/ ClickExtract
    \/ ThreadReadsCurrentFile
    \/ ThreadReadsEntries
    \/ ThreadReadsDataOffset
    \/ ThreadProgress
    \/ ThreadReturns
    \/ ThreadRaises

SpecGui == InitGui /\ [][NextGui]_vars

\* =============================================================== claims

\* The record slot r (counted from 0) of buffer d stops the table: it is
\* incomplete, its size is 0 or 0xCCCCCCCC, or its name starts with a null.
SlotStops(d, r) ==
    \/ 136 * (r + 1) > Len(d)
    \/ \A b \in 1..4 : d[136 * r + b] = 0
    \/ \A b \in 1..4 : d[136 * r + b] = 204
    \/ d[136 * r + 5] = 0

FirstStop(d) ==
    CHOOSE k \in 0..(Len(d) \div 136) :
        SlotStops(d, k) /\ \A j \in 0..(k - 1) : ~SlotStops(d, j)

SlotEntry(d, r) ==
    [filename |-> decode_ascii(UpToNul(SubSeq(d, 136 * r + 5, 136 * r + 132))),
     size |-> <<d[136 * r + 3] + 256 * d[136 * r + 4],
                d[136 * r + 1] + 256 * d[136 * r + 2]>>]

\* C2: parse_sff returns exactly the records before the first one that is
\* incomplete, has size 0 or 0xCCCCCCCC or has an empty name, in table order,
\* with payload_offset = 136 * (their number); no returned entry has size 0,
\* size 0xCCCCCCCC or an empty name.
ThmC2_ParsePrefix ==
    parsed.done =>
        LET k == FirstStop(data)
        IN  /\ Len(parsed.entries) = k
            /\ \A r \in 0..(k - 1) : parsed.entries[r + 1] = SlotEntry(data, r)
            /\ parsed.offset = 136 * k
            /\ parsed.offset = 136 * Len(parsed.entries)
            /\ \A n \in 1..Len(parsed.entries) :
                   /\ parsed.entries[n].size \notin {<<0, 0>>, <<52428, 52428>>}
                   /\ parsed.entries[n].filename # <<>>

\* a buffer whose second record carries the sentinel size has been parsed
WitC2_SentinelAtOne ==
    /\ parsed.done
    /\ Len(data) >= 272
    /\ SubSeq(data, 137, 140) = <<204, 204, 204, 204>>
    /\ Len(parsed.entries) = 1

\* C7: sanitizing the sanitized parts again changes neither the parts nor
\* the verdict that the name is unrecoverable.
ThmC7_SanitizeIdempotent ==
    twice.done => twice.parts = once.parts /\ twice.skip = once.skip

\* a name of two parts, the first sanitized to the placeholder and the
\* second changed by sanitizing, has been sanitized twice
WitC7_PlaceholderAndChanged ==
    /\ twice.done
    /\ Len(once.parts) = 2
    /\ once.parts[1] = UNNAMED
    /\ once.parts[2] # UNNAMED
    /\ once.parts[2] # split_path(raw, <<>>)[2]

\* ------------------------------------------------ claims on extract_all
SizeOf(k) == x_entries[k].size[1] * 65536 + x_entries[k].size[2]

RECURSIVE SizesBefore(_)
SizesBefore(k) == IF k <= 1 THEN 0 ELSE SizesBefore(k - 1) + SizeOf(k - 1)

\* where the payload of entry k lies in the archive, by the format
PayloadStart(k) == x_offset + SizesBefore(k)

IsPayloadOf(bytes, k) ==
    /\ Len(bytes) = SizeOf(k)
    /\ PayloadStart(k) + SizeOf(k) <= Len(src)
    /\ \A j \in 1..SizeOf(k) : bytes[j] = src[PayloadStart(k) + j]

Finished(k) == log[k].outcome \in {"written", "skipped"}

WritersOf(loc, n) ==
    {k \in 1..n : log[k].outcome = "written" /\ Loc(log[k].path) = loc}

LastWriter(loc, n) ==
    CHOOSE k \in WritersOf(loc, n) : \A j \in WritersOf(loc, n) : j <= k

\* C1 (as claimed): an entry that declares more bytes than remain after the
\* cursor makes extract_all fail with a TruncatedArchiveError, and no file is
\* written for that entry.
CexC1_TruncationRaises ==
    \A k \in 1..Len(log) :
        SizeOf(k) > Len(src) - log[k].start =>
            /\ xpc = "raised"
            /\ k = Len(log)
            /\ log[k].outcome = "truncated archive"

\* C3 (as claimed): the bytes read for entry k are exactly its size bytes at
\* payload_offset + the sizes of the entries before it, and after a run without
\* error every file holds exactly those bytes of the last entry written to it.
CexC3_SequentialPayloads ==
    /\ \A k \in 1..Len(log) :
           log[k].start = PayloadStart(k) /\ IsPayloadOf(log[k].bytes, k)
    /\ xpc = "returned" =>
           \A loc \in DOMAIN files :
               /\ WritersOf(loc, Len(log)) # {}
               /\ IsPayloadOf(files[loc], LastWriter(loc, Len(log)))

\* C4 (as claimed): whenever extract_all has ended, progress_cb has been
\* called exactly N times, the k-th call being (k, N).
CexC4_AlwaysNCalls ==
    xpc \in {"returned", "raised"} => calls = [k \in 1..total |-> <<k, total>>]

\* C4 (amended): progress_cb has been called once per entry finished (written
\* or skipped), the k-th call being (k, N); a call of extract_all that returns
\* has finished all N entries, one that raises at entry i has finished i - 1;
\* nothing is called once extract_all has returned or raised.
ThmC4_OneCallPerFinishedEntry ==
    /\ calls = [k \in 1..idx |-> <<k, total>>]
    /\ idx = Cardinality({k \in 1..Len(log) : Finished(k)})
    /\ \A k \in 1..idx : Finished(k)
    /\ xpc = "returned" => idx = total
    /\ xpc = "raised" => idx = Len(log) - 1 /\ idx < total
    /\ xpc \in {"returned", "raised"} => ~ENABLED NextExtract

\* a run of three entries, one skipped and one written, has returned
WitC4_ReturnedMixed ==
    /\ xpc = "returned"
    /\ total = 3
    /\ \E k \in 1..total : log[k].outcome = "skipped"
    /\ \E k \in 1..total : log[k].outcome = "written"

\* every sanitized segment of the name of entry k is empty or "_unnamed"
AllPlaceholder(k) ==
    LET segs == sanitized_parts(x_entries[k].filename)
    IN  \A j \in 1..Len(segs) : segs[j] = <<>> \/ segs[j] = UNNAMED

NotSkipped == {k \in 1..Len(log) : log[k].outcome # "skipped"}

AbortedAt(i) ==
    /\ i = Len(log)
    /\ log[i].outcome \in {"mkdir failed", "open failed", "write failed"}
    /\ \A k \in 1..(i - 1) : Finished(k)
    /\ idx = i - 1
    /\ calls = [k \in 1..(i - 1) |-> <<k, total>>]
    /\ pos = log[i].start + Len(log[i].bytes)
    /\ ~ENABLED NextExtract

\* loc holds what the last of the entries before i that wrote it has read
KeptFrom(loc, i) ==
    /\ loc \in DOMAIN files
    /\ files[loc] = log[LastWriter(loc, i - 1)].bytes

CexC8_FilesInsideOutputDir ==
    \A loc \in DOMAIN files : loc # <<>> /\ loc[1] # DOTDOT

\* ----------------------------------------------------- claims on SFFApp
\* the extractions started whose _extraction_done or _extraction_error has
\* not run yet
Unsettled ==
    {t \in 1..Len(threads) :
        \/ threads[t].pc # "finished"
        \/ \E k \in 1..Len(afterq) : afterq[k].tid = t}

\* C9 (as claimed): from the start of an extraction thread until its
\* _extraction_done or _extraction_error has run, no second extraction is
\* started.
CexC9_OneExtractionAtATime == Cardinality(Unsettled) <= 1

\* C10 (as claimed): the path, the entries and the data_offset a thread passes
\* to extract_all come from one load, and _extraction_done reports the number
\* of entries of the archive that thread extracted.
CexC10_OneLoadPerExtraction ==
    /\ \A t \in 1..Len(threads) :
           threads[t].pc \in {"extract_all", "finished"} =>
               /\ threads[t].file \in Readable
               /\ threads[t].entries = parse_sff(Contents(threads[t].file))[1]
               /\ threads[t].data_offset = parse_sff(Contents(threads[t].file))[2]
    /\ \A k \in 1..Len(reported) :
           reported[k].count = Len(threads[reported[k].tid].entries)

====
